---- MODULE Spec2Model ----
(***************************************************************************)
(* Allocation interposition layer of swift-testing-performance             *)
(* (Sources/CAllocationTracking/allocation_tracking.c).                    *)
(*                                                                         *)
(* The interposed malloc/free, the pthread_once guarded resolver           *)
(* init_hooks and the thread-local tracker API are modelled statement by   *)
(* statement; every thread owns a call stack of frames whose pc is the     *)
(* source line about to be executed.                                       *)
(*                                                                         *)
(* uint64_t / size_t arithmetic is modelled CounterBits wide: TLC's        *)
(* integers cannot hold 2^64, so the counters wrap at 2^CounterBits.       *)
(***************************************************************************)
EXTENDS Integers, Sequences, FiniteSets, TLC

(* ------------------------------ bounds --------------------------------- *)
\* width, in bits, of the model's uint64_t and size_t
CounterBits == 2
\* total number of calls the program's threads make
MaxCalls == 4

Threads == {"A", "B"}
UINT64_MOD == 2 ^ CounterBits
\* the sizes the program asks for
Sizes == {1, 2}
\* the non-null addresses the real allocator hands out
Addrs == {1}

(* ------------------------------ constants ------------------------------ *)
NULL == 0
Pointers == {NULL} \cup Addrs
\* values of a function-pointer binding: unresolved, or the next definition
NULL_FN == "NULL"
NEXT_MALLOC == "next_malloc"
NEXT_FREE == "next_free"

\* static __thread AllocationStats stats = {0};
ZeroStats == [allocations |-> 0, deallocations |-> 0, bytes_allocated |-> 0]

VARIABLES
    tracking_enabled,  \* [Threads -> 0..1]        static __thread int
    stats,             \* [Threads -> AllocationStats]  static __thread
    real_malloc,       \* process-wide binding
    real_free,         \* process-wide binding
    init_once,         \* pthread_once_t: "INIT", "IN_PROGRESS", "DONE"
    stack,             \* [Threads -> Seq(frame)]  call stack of each thread
    ret,               \* [Threads -> record]      the last completed call
    crashed,           \* the process was killed by a fault
    ncalls,            \* calls made so far by the program (bounded)
    init_runs,         \* history: how many times init_hooks was entered
    win,               \* history: calls completed since the last start
    frozen,            \* history: what the last tracking_stop returned
    started            \* history: the thread has called tracking_start

vars == <<tracking_enabled, stats, real_malloc, real_free, init_once, stack,
          ret, crashed, ncalls, init_runs, win, frozen, started>>

(* ------------------------------ frames --------------------------------- *)
Snapshot(t) == [enabled |-> tracking_enabled[t], stats |-> stats[t]]

\* a frame: the function, the line about to run, its argument, its local
\* ptr, and a record of the calls it made through the real bindings
Frame(fn, pc, arg, entry) ==
    [fn |-> fn, pc |-> pc, arg |-> arg, ptr |-> NULL,
     calls |-> 0, realArg |-> 0, realRet |-> NULL, entry |-> entry]

NoRet ==
    [fn |-> "none", arg |-> 0, ptr |-> NULL, rec |-> ZeroStats,
     calls |-> 0, realArg |-> 0, realRet |-> NULL,
     entry |-> [enabled |-> 0, stats |-> ZeroStats]]

Idle(t) == stack[t] = <<>>
Top(t) == stack[t][Len(stack[t])]
At(t, fn, pc) == ~Idle(t) /\ Top(t).fn = fn /\ Top(t).pc = pc
SetTop(t, f) == [stack EXCEPT ![t] = [@ EXCEPT ![Len(@)] = f]]
Push(t, f) == [stack EXCEPT ![t] = Append(@, f)]
Pop(t) == [stack EXCEPT ![t] = SubSeq(@, 1, Len(@) - 1)]
InInit(t) == \E i \in 1 .. Len(stack[t]) : stack[t][i].fn = "init_hooks"


\* what a completed call leaves behind: its result and what the frame did
RetOf(f, ptr, rec) ==
    [fn |-> f.fn, arg |-> f.arg, ptr |-> ptr, rec |-> rec,
     calls |-> f.calls, realArg |-> f.realArg, realRet |-> f.realRet,
     entry |-> f.entry]

(* ------------------------------ the code ------------------------------- *)
\* mutant: an unsynchronised "not yet done" test in place of pthread_once
OnceMayRun_racy == init_once # "DONE"

\* pthread_once runs the routine only for the caller that finds the control
\* in its initial state
OnceMayRun == init_once = "INIT"

\* mutant: a guard that lets callers through as soon as the routine has
\* been started
OnceComplete_early == init_once # "INIT"

\* pthread_once returns to a caller that did not run the routine only when
\* the routine has completed
OnceComplete == init_once = "DONE"

\* mutant: free delegates first, the count is no longer taken before
\* real_free
AfterOnce_delegating(pc) == IF pc = "L25" THEN "L27" ELSE "L45"

\* the statement after pthread_once in malloc (line 27) and free (line 41)
AfterOnce(pc) == IF pc = "L25" THEN "L27" ELSE "L41"

\* dlsym(RTLD_NEXT, name): the next definition, or NULL when there is none
Dlsym(name) == {NULL_FN, name}

\* mutant: malloc pads the request before delegating
RealMallocArg_padded(f) == (f.arg + 1) % UINT64_MOD

\* the argument malloc hands to real_malloc
RealMallocArg(f) == f.arg

\* the argument free hands to real_free
RealFreeArg(f) == f.arg

\* the value malloc returns
MallocResult(f) == f.ptr

\* mutant: the flag declared without __thread, shared by all threads
Tracking_shared(t) == \E u \in Threads : tracking_enabled[u] # 0

\* the thread-local flag, as read by malloc and free
Tracking(t) == tracking_enabled[t] # 0

\* mutant: the ptr != NULL test left out
MallocCounts_unchecked(t, ptr) == Tracking(t)

\* if (tracking_enabled && ptr != NULL), in malloc
MallocCounts(t, ptr) == Tracking(t) /\ ptr # NULL

\* mutant: the ptr != NULL test left out of free
FreeCounts_unchecked(t, ptr) == Tracking(t)

\* if (tracking_enabled && ptr != NULL), in free
FreeCounts(t, ptr) == Tracking(t) /\ ptr # NULL

\* mutant: saturating counters
StatsAfterMalloc_saturating(s, size) ==
    [s EXCEPT !.allocations =
                 IF @ + 1 >= UINT64_MOD THEN UINT64_MOD - 1 ELSE @ + 1,
              !.bytes_allocated =
                 IF @ + size >= UINT64_MOD THEN UINT64_MOD - 1 ELSE @ + size]

\* mutant: the bytes_allocated update left out
StatsAfterMalloc_nobytes(s, size) ==
    [s EXCEPT !.allocations = (@ + 1) % UINT64_MOD]

\* stats.allocations++; stats.bytes_allocated += size;
StatsAfterMalloc(s, size) ==
    [s EXCEPT !.allocations = (@ + 1) % UINT64_MOD,
              !.bytes_allocated = (@ + size) % UINT64_MOD]

\* mutant: free also takes the block off the allocation count
StatsAfterFree_net(s) ==
    [s EXCEPT !.deallocations = (@ + 1) % UINT64_MOD,
              !.allocations = (@ + UINT64_MOD - 1) % UINT64_MOD]

\* stats.deallocations++;
StatsAfterFree(s) == [s EXCEPT !.deallocations = (@ + 1) % UINT64_MOD]

\* mutant: the memset left out
StartStats_kept(t) == stats

\* mutant: stats declared without __thread, one record for all threads
StartStats_shared(t) == [u \in Threads |-> ZeroStats]

\* memset(&stats, 0, sizeof(stats));
StartStats(t) == [stats EXCEPT ![t] = ZeroStats]

\* tracking_enabled = 1;
StartEnabled(t) == [tracking_enabled EXCEPT ![t] = 1]

\* mutant: the flag left set
StopEnabled_kept(t) == tracking_enabled

\* tracking_enabled = 0;
StopEnabled(t) == [tracking_enabled EXCEPT ![t] = 0]

\* mutant: tracking_stop hands back a cleared record
StopResult_cleared(t) == ZeroStats

\* return stats;  in tracking_stop
StopResult(t) == stats[t]

\* mutant: tracking_current reports only the allocation side
CurrentResult_partial(t) == [stats[t] EXCEPT !.deallocations = 0]

\* return stats;  in tracking_current
CurrentResult(t) == stats[t]

(* ------------------------------ Init ----------------------------------- *)
Init ==
    /\ tracking_enabled = [t \in Threads |-> 0]
    /\ stats = [t \in Threads |-> ZeroStats]
    /\ real_malloc = NULL_FN
    /\ real_free = NULL_FN
    /\ init_once = "INIT"
    /\ stack = [t \in Threads |-> <<>>]
    /\ ret = [t \in Threads |-> NoRet]
    /\ crashed = FALSE
    /\ ncalls = 0
    /\ init_runs = 0
    /\ win = [t \in Threads |-> [n |-> 0, m |-> 0, sum |-> 0]]
    /\ frozen = [t \in Threads |-> [set |-> FALSE, val |-> ZeroStats]]
    /\ started = [t \in Threads |-> FALSE]

\* the program may make a call on thread t
MayCall(t) == ~crashed /\ Idle(t) /\ ncalls < MaxCalls

\* thread t may take a step inside a call
Running(t) == ~crashed /\ ~Idle(t)

(* ------------------------------ tracker API ---------------------------- *)
\* void tracking_start(void)
TrackingStart(t) ==
    /\ MayCall(t)
    /\ stats' = StartStats(t)
    /\ tracking_enabled' = StartEnabled(t)
    /\ ret' = [ret EXCEPT ![t] =
                 RetOf(Frame("tracking_start", "L52", 0, Snapshot(t)),
                       NULL, ZeroStats)]
    /\ win' = [win EXCEPT ![t] = [n |-> 0, m |-> 0, sum |-> 0]]
    /\ frozen' = [frozen EXCEPT ![t] = [set |-> FALSE, val |-> ZeroStats]]
    /\ started' = [started EXCEPT ![t] = TRUE]
    /\ ncalls' = ncalls + 1
    /\ UNCHANGED <<real_malloc, real_free, init_once, stack, crashed,
                   init_runs>>

\* AllocationStats tracking_stop(void)
TrackingStop(t) ==
    /\ MayCall(t)
    /\ tracking_enabled' = StopEnabled(t)
    /\ ret' = [ret EXCEPT ![t] =
                 RetOf(Frame("tracking_stop", "L58", 0, Snapshot(t)),
                       NULL, StopResult(t))]
    /\ frozen' = [frozen EXCEPT ![t] = [set |-> TRUE, val |-> StopResult(t)]]
    /\ ncalls' = ncalls + 1
    /\ UNCHANGED <<stats, real_malloc, real_free, init_once, stack, crashed,
                   init_runs, win, started>>

\* AllocationStats tracking_current(void)
TrackingCurrent(t) ==
    /\ MayCall(t)
    /\ ret' = [ret EXCEPT ![t] =
                 RetOf(Frame("tracking_current", "L63", 0, Snapshot(t)),
                       NULL, CurrentResult(t))]
    /\ ncalls' = ncalls + 1
    /\ UNCHANGED <<tracking_enabled, stats, real_malloc, real_free, init_once,
                   stack, crashed, init_runs, win, frozen, started>>

(* ------------------------------ calls ---------------------------------- *)
\* the program calls malloc(size): control is at line 25
MallocCall(t, size) ==
    /\ MayCall(t)
    /\ stack' = Push(t, Frame("malloc", "L25", size, Snapshot(t)))
    /\ ret' = [ret EXCEPT ![t] = NoRet]
    /\ ncalls' = ncalls + 1
    /\ UNCHANGED <<tracking_enabled, stats, real_malloc, real_free, init_once,
                   crashed, init_runs, win, frozen, started>>

\* the program calls free(ptr): control is at line 39
FreeCall(t, p) ==
    /\ MayCall(t)
    /\ stack' = Push(t, Frame("free", "L39", p, Snapshot(t)))
    /\ ret' = [ret EXCEPT ![t] = NoRet]
    /\ ncalls' = ncalls + 1
    /\ UNCHANGED <<tracking_enabled, stats, real_malloc, real_free, init_once,
                   crashed, init_runs, win, frozen, started>>

(* ------------------------------ pthread_once --------------------------- *)
AtOnce(t) == At(t, "malloc", "L25") \/ At(t, "free", "L39")

\* pthread_once(&init_once, init_hooks), first caller: runs init_hooks
OnceEnter(t) ==
    /\ Running(t) /\ AtOnce(t)
    /\ OnceMayRun
    /\ init_once' = "IN_PROGRESS"
    /\ stack' = Push(t, Frame("init_hooks", "L19", 0, Snapshot(t)))
    /\ init_runs' = init_runs + 1
    /\ UNCHANGED <<tracking_enabled, stats, real_malloc, real_free, ret,
                   crashed, ncalls, win, frozen, started>>

\* pthread_once(&init_once, init_hooks), routine already completed: returns.
\* While the routine is in progress the caller waits (neither action is
\* enabled), whoever is running the routine.
OncePass(t) ==
    /\ Running(t) /\ AtOnce(t)
    /\ ~OnceMayRun
    /\ OnceComplete
    /\ stack' = SetTop(t, [Top(t) EXCEPT !.pc = AfterOnce(@)])
    /\ UNCHANGED <<tracking_enabled, stats, real_malloc, real_free, init_once,
                   ret, crashed, ncalls, init_runs, win, frozen, started>>

(* ------------------------------ init_hooks ----------------------------- *)
\* real_malloc = dlsym(RTLD_NEXT, "malloc");
InitMalloc(t) ==
    /\ Running(t) /\ At(t, "init_hooks", "L19")
    /\ \E f \in Dlsym(NEXT_MALLOC) : real_malloc' = f
    /\ stack' = SetTop(t, [Top(t) EXCEPT !.pc = "L20"])
    /\ UNCHANGED <<tracking_enabled, stats, real_free, init_once, ret,
                   crashed, ncalls, init_runs, win, frozen, started>>

\* real_free = dlsym(RTLD_NEXT, "free");
InitFree(t) ==
    /\ Running(t) /\ At(t, "init_hooks", "L20")
    /\ \E f \in Dlsym(NEXT_FREE) : real_free' = f
    /\ stack' = SetTop(t, [Top(t) EXCEPT !.pc = "L21"])
    /\ UNCHANGED <<tracking_enabled, stats, real_malloc, init_once, ret,
                   crashed, ncalls, init_runs, win, frozen, started>>

\* init_hooks returns; pthread_once marks the control done and returns to
\* the malloc or free that called it
InitReturn(t) ==
    /\ Running(t) /\ At(t, "init_hooks", "L21")
    /\ init_once' = "DONE"
    /\ stack' = [stack EXCEPT ![t] =
                   LET s == SubSeq(@, 1, Len(@) - 1)
                   IN  [s EXCEPT ![Len(s)].pc = AfterOnce(@)]]
    /\ UNCHANGED <<tracking_enabled, stats, real_malloc, real_free, ret,
                   crashed, ncalls, init_runs, win, frozen, started>>

\* the symbol lookup itself allocates or releases (the loader's diagnostic
\* machinery): the interposed malloc/free is entered from inside init_hooks
DlsymMalloc(t, size) ==
    /\ Running(t)
    /\ At(t, "init_hooks", "L19") \/ At(t, "init_hooks", "L20")
    /\ Len(stack[t]) = 2
    /\ stack' = Push(t, Frame("malloc", "L25", size, Snapshot(t)))
    /\ UNCHANGED <<tracking_enabled, stats, real_malloc, real_free, init_once,
                   ret, crashed, ncalls, init_runs, win, frozen, started>>

DlsymFree(t, p) ==
    /\ Running(t)
    /\ At(t, "init_hooks", "L19") \/ At(t, "init_hooks", "L20")
    /\ Len(stack[t]) = 2
    /\ stack' = Push(t, Frame("free", "L39", p, Snapshot(t)))
    /\ UNCHANGED <<tracking_enabled, stats, real_malloc, real_free, init_once,
                   ret, crashed, ncalls, init_runs, win, frozen, started>>

(* ------------------------------ malloc --------------------------------- *)
\* void* ptr = real_malloc(size);  the real allocator returns an address or
\* NULL.  A call through an unresolved (null) binding faults: page zero is
\* unmapped on the targets of this library, the process is killed.
MallocReal(t) ==
    /\ Running(t) /\ At(t, "malloc", "L27")
    /\ IF real_malloc = NULL_FN
       THEN /\ crashed' = TRUE
            /\ UNCHANGED stack
       ELSE /\ \E r \in Pointers :
                 stack' = SetTop(t, [Top(t) EXCEPT
                                       !.ptr = r,
                                       !.calls = @ + 1,
                                       !.realArg = RealMallocArg(Top(t)),
                                       !.realRet = r,
                                       !.pc = "L29"])
            /\ UNCHANGED crashed
    /\ UNCHANGED <<tracking_enabled, stats, real_malloc, real_free, init_once,
                   ret, ncalls, init_runs, win, frozen, started>>

\* if (tracking_enabled && ptr != NULL) { stats.allocations++;
\* stats.bytes_allocated += size; }  return ptr;
MallocTrack(t) ==
    /\ Running(t) /\ At(t, "malloc", "L29")
    /\ stats' = IF MallocCounts(t, Top(t).ptr)
                THEN [stats EXCEPT ![t] = StatsAfterMalloc(@, Top(t).arg)]
                ELSE stats
    /\ stack' = Pop(t)
    /\ IF Len(stack[t]) = 1
       THEN /\ ret' = [ret EXCEPT ![t] =
                         RetOf(Top(t), MallocResult(Top(t)), ZeroStats)]
            /\ win' = IF MallocResult(Top(t)) # NULL
                      THEN [win EXCEPT ![t].n = @ + 1,
                                       ![t].sum = @ + Top(t).arg]
                      ELSE win
       ELSE UNCHANGED <<ret, win>>
    /\ UNCHANGED <<tracking_enabled, real_malloc, real_free, init_once,
                   crashed, ncalls, init_runs, frozen, started>>

(* ------------------------------ free ----------------------------------- *)
\* if (tracking_enabled && ptr != NULL) { stats.deallocations++; }
FreeTrack(t) ==
    /\ Running(t) /\ At(t, "free", "L41")
    /\ stats' = IF FreeCounts(t, Top(t).arg)
                THEN [stats EXCEPT ![t] = StatsAfterFree(@)]
                ELSE stats
    /\ stack' = SetTop(t, [Top(t) EXCEPT !.pc = "L45"])
    /\ UNCHANGED <<tracking_enabled, real_malloc, real_free, init_once, ret,
                   crashed, ncalls, init_runs, win, frozen, started>>

\* real_free(ptr);  faults when the binding is unresolved, as in malloc;
\* then free returns
FreeReal(t) ==
    /\ Running(t) /\ At(t, "free", "L45")
    /\ IF real_free = NULL_FN
       THEN /\ crashed' = TRUE
            /\ UNCHANGED <<stack, ret, win>>
       ELSE /\ stack' = Pop(t)
            /\ IF Len(stack[t]) = 1
               THEN /\ ret' = [ret EXCEPT ![t] =
                                 RetOf([Top(t) EXCEPT
                                          !.calls = @ + 1,
                                          !.realArg = RealFreeArg(Top(t))],
                                       NULL, ZeroStats)]
                    /\ win' = IF Top(t).arg # NULL
                              THEN [win EXCEPT ![t].m = @ + 1]
                              ELSE win
               ELSE UNCHANGED <<ret, win>>
            /\ UNCHANGED crashed
    /\ UNCHANGED <<tracking_enabled, stats, real_malloc, real_free, init_once,
                   ncalls, init_runs, frozen, started>>

(* ------------------------------ Next ----------------------------------- *)
\* the steps of thread t
ThreadNext(t) ==
    \/ TrackingStart(t)
    \/ TrackingStop(t)
    \/ TrackingCurrent(t)
    \/ \E size \in Sizes : MallocCall(t, size)
    \/ \E p \in Pointers : FreeCall(t, p)
    \/ OnceEnter(t)
    \/ OncePass(t)
    \/ InitMalloc(t)
    \/ InitFree(t)
    \/ InitReturn(t)
    \/ \E size \in Sizes : DlsymMalloc(t, size)
    \/ \E p \in Pointers : DlsymFree(t, p)
    \/ MallocReal(t)
    \/ MallocTrack(t)
    \/ FreeTrack(t)
    \/ FreeReal(t)

Next == \E t \in Threads : ThreadNext(t)

Spec == Init /\ [][Next]_vars

(* ======================================================================= *)
(*                               properties                                *)
(* ======================================================================= *)
\* the record a window's history stands for, in the counters' width
WindowRecord(t) ==
    [allocations |-> win[t].n % UINT64_MOD,
     deallocations |-> win[t].m % UINT64_MOD,
     bytes_allocated |-> win[t].sum % UINT64_MOD]

\* thread t has just completed a call of fn
Completed(t, fn) == Idle(t) /\ ret[t].fn = fn

\* C1 (as stated): a tracking_stop that ends a window in which the thread
\* completed N successful mallocs of sizes s_1..s_N and M frees of non-null
\* pointers returns exactly {N, M, s_1 + ... + s_N}.
C1_CountingExact ==
    \A t \in Threads :
        (Completed(t, "tracking_stop") /\ ret[t].entry.enabled # 0)
        => ret[t].rec = [allocations |-> win[t].n,
                         deallocations |-> win[t].m,
                         bytes_allocated |-> win[t].sum]

\* C1 (amended): the record returned is {N, M, s_1 + ... + s_N} with each
\* field reduced modulo the counter width (2^64 in the code).
C1_CountingModulo ==
    \A t \in Threads :
        (Completed(t, "tracking_stop") /\ ret[t].entry.enabled # 0)
        => ret[t].rec = WindowRecord(t)

C1_Witness ==
    \E t \in Threads :
        /\ Completed(t, "tracking_stop") /\ ret[t].entry.enabled # 0
        /\ win[t].n >= 1 /\ win[t].m >= 1 /\ win[t].sum >= 2

\* C2: whenever tracking_start has just returned, in whatever state it was
\* called, the caller's three counters are zero and its flag is set.
C2_ResetOnStart ==
    \A t \in Threads :
        Completed(t, "tracking_start")
        => stats[t] = ZeroStats /\ tracking_enabled[t] = 1

\* tracking_start called on a window that counted something and was never
\* stopped
C2_Witness ==
    \E t \in Threads :
        /\ Completed(t, "tracking_start")
        /\ ret[t].entry.enabled # 0
        /\ ret[t].entry.stats.allocations > 0

\* C3: from tracking_stop until the next tracking_start the thread's stats
\* stay what tracking_stop returned, and so does every tracking_current.
C3_FreezeOnStop ==
    \A t \in Threads :
        frozen[t].set
        => /\ stats[t] = frozen[t].val
           /\ Completed(t, "tracking_current") => ret[t].rec = frozen[t].val

\* a tracking_current after a stop that was followed by a successful malloc
C3_Witness ==
    \E t \in Threads :
        /\ frozen[t].set /\ started[t]
        /\ Completed(t, "tracking_current")
        /\ win[t].n >= 1

\* C4: a thread that never called tracking_start has zero stats and reads
\* {0,0,0} from tracking_current, whatever it and the other threads do.
C4_ThreadIsolation ==
    \A t \in Threads :
        ~started[t]
        => /\ stats[t] = ZeroStats
           /\ Completed(t, "tracking_current") => ret[t].rec = ZeroStats

\* the thread allocated, another thread is tracking and has counted
C4_Witness ==
    \E t \in Threads, u \in Threads :
        /\ ~started[t] /\ Completed(t, "tracking_current") /\ win[t].n >= 1
        /\ tracking_enabled[u] # 0 /\ stats[u].allocations >= 1

\* C5: every step of thread a leaves the flag and the counters of every
\* other thread b unchanged.
C5_PerThreadFrame ==
    [][\A a \in Threads :
         ThreadNext(a)
         => \A b \in Threads \ {a} :
              /\ tracking_enabled'[b] = tracking_enabled[b]
              /\ stats'[b] = stats[b]]_vars

\* both threads hold counts of their own, one having just returned from malloc
C5_Witness ==
    \E a \in Threads, b \in Threads :
        /\ a # b
        /\ stats[a].allocations >= 1 /\ stats[b].allocations >= 1
        /\ Completed(a, "malloc")

\* thread t is past pthread_once in a malloc or free call
PastOnce(t) ==
    /\ ~Idle(t)
    /\ Top(t).fn \in {"malloc", "free"}
    /\ Top(t).pc \notin {"L25", "L39"}

\* C6: init_hooks is entered at most once, exactly once by the time the
\* guard is done, and a binding that has been set, or that a completed
\* resolution has left, never changes.
C6_ExactlyOnce ==
    /\ [](init_runs <= 1 /\ (init_once = "DONE" => init_runs = 1))
    /\ [][/\ real_malloc # NULL_FN => real_malloc' = real_malloc
          /\ real_free # NULL_FN => real_free' = real_free
          /\ init_once = "DONE"
             => /\ init_once' = "DONE"
                /\ real_malloc' = real_malloc
                /\ real_free' = real_free]_vars

\* two threads made their first call concurrently: the resolution is over
\* and both are past the guard, one of them having run it
C6_Witness ==
    /\ init_once = "DONE"
    /\ \A t \in Threads : PastOnce(t) /\ ncalls = Cardinality(Threads)

\* C7: a malloc or free entered from inside init_hooks by the thread that
\* is running the resolution does not block at the guard: its pthread_once
\* can take a step.
C7_ReentrantCallServiced ==
    \A t \in Threads :
        (InInit(t) /\ AtOnce(t)) => ENABLED (OnceEnter(t) \/ OncePass(t))

\* C8: once pthread_once has returned in a call both bindings are resolved,
\* and no call is ever made through an unresolved binding.
C8_BindingsResolved ==
    /\ \A t \in Threads :
         PastOnce(t) => real_malloc # NULL_FN /\ real_free # NULL_FN
    /\ ~crashed

\* C9: a completed malloc made exactly one call of the real allocator, with
\* its own size, and returned that call's result; a completed free made
\* exactly one call of the real deallocator, with its own pointer; tracking
\* enabled or not.
C9_TransparentDelegation ==
    \A t \in Threads :
        /\ Completed(t, "malloc")
           => /\ ret[t].calls = 1
              /\ ret[t].realArg = ret[t].arg
              /\ ret[t].ptr = ret[t].realRet
        /\ Completed(t, "free")
           => /\ ret[t].calls = 1
              /\ ret[t].realArg = ret[t].arg

\* a malloc completed with tracking enabled beside one completed with
\* tracking disabled
C9_Witness ==
    \E t \in Threads, u \in Threads :
        /\ Completed(t, "malloc") /\ ret[t].entry.enabled # 0
        /\ ret[t].ptr # NULL
        /\ Completed(u, "malloc") /\ ret[u].entry.enabled = 0
        /\ ret[u].ptr # NULL

\* C10: a malloc whose real allocation returned null returns null and
\* leaves its thread's three counters as they were at the call.
C10_FailedNotCounted ==
    \A t \in Threads :
        (Completed(t, "malloc") /\ ret[t].realRet = NULL)
        => ret[t].ptr = NULL /\ stats[t] = ret[t].entry.stats

\* a failed malloc on a thread that is tracking and has counted before
C10_Witness ==
    \E t \in Threads :
        /\ Completed(t, "malloc") /\ ret[t].realRet = NULL
        /\ ret[t].calls = 1
        /\ ret[t].entry.enabled # 0 /\ ret[t].entry.stats.allocations >= 1

\* C11: a completed free(NULL) leaves its thread's three counters as they
\* were at the call, tracking enabled or not, and was forwarded to the real
\* deallocator with the null pointer.
C11_FreeNullNotCounted ==
    \A t \in Threads :
        (Completed(t, "free") /\ ret[t].arg = NULL)
        => /\ stats[t] = ret[t].entry.stats
           /\ ret[t].calls = 1
           /\ ret[t].realArg = NULL

\* free(NULL) completed on a thread that is tracking
C11_Witness ==
    \E t \in Threads :
        /\ Completed(t, "free") /\ ret[t].arg = NULL
        /\ ret[t].entry.enabled # 0 /\ tracking_enabled[t] # 0

\* C12: tracking_stop, from either state, clears the caller's flag, leaves
\* its counters as they were and returns them; a tracking_stop that follows
\* another with no tracking_start between returns the same record.
C12_StopIdempotent ==
    /\ [](\A t \in Threads :
            Completed(t, "tracking_stop")
            => /\ tracking_enabled[t] = 0
               /\ stats[t] = ret[t].entry.stats
               /\ ret[t].rec = stats[t])
    /\ [][\A t \in Threads :
            (TrackingStop(t) /\ frozen[t].set)
            => ret'[t].rec = frozen[t].val]_vars

\* a second tracking_stop, after a successful malloc that followed the first
C12_Witness ==
    \E t \in Threads :
        /\ Completed(t, "tracking_stop")
        /\ started[t] /\ ret[t].entry.enabled = 0
        /\ win[t].n >= 1

\* C13: tracking_current, in either state, returns the caller's present
\* counters and leaves its flag and counters as they were.
C13_CurrentPureRead ==
    \A t \in Threads :
        Completed(t, "tracking_current")
        => /\ ret[t].rec = stats[t]
           /\ stats[t] = ret[t].entry.stats
           /\ tracking_enabled[t] = ret[t].entry.enabled

\* tracking_current inside a window that has counted a malloc and a free
C13_Witness ==
    \E t \in Threads :
        /\ Completed(t, "tracking_current")
        /\ tracking_enabled[t] # 0
        /\ stats[t].allocations >= 1 /\ stats[t].deallocations >= 1

\* thread t is about to call through a binding: real_malloc(size) on line
\* 27 or real_free(ptr) on line 45
AboutToCallReal(t) == At(t, "malloc", "L27") \/ At(t, "free", "L45")

\* C14: whenever a thread is about to call through real_malloc or real_free
\* the resolution has completed and no thread is inside init_hooks; so no
\* thread calls real_free between init_hooks' two assignments.
C14_NoPartialBinding ==
    \A t \in Threads :
        AboutToCallReal(t)
        => /\ init_once = "DONE"
           /\ init_runs = 1
           /\ \A u \in Threads : ~InInit(u)

\* both threads made their first call concurrently and both are about to
\* call through a binding, one through real_malloc, one through real_free
C14_Witness ==
    \E t \in Threads, u \in Threads :
        /\ At(t, "malloc", "L27") /\ At(u, "free", "L45")
        /\ ncalls = Cardinality(Threads)

\* a step of thread t inside a tracking window: the flag is set before and
\* after, and the step is not a tracking_start opening a new window
WindowStep(t) ==
    /\ tracking_enabled[t] # 0
    /\ tracking_enabled'[t] # 0
    /\ ~TrackingStart(t)

\* the size of the malloc thread t is about to count, if any
PendingSize(t) == IF At(t, "malloc", "L29") THEN Top(t).arg ELSE 0

\* new is old, or more, or old + inc wrapped at the counter width
GrewOrWrapped(old, new, inc) ==
    \/ new >= old
    \/ old + inc >= UINT64_MOD /\ new = old + inc - UINT64_MOD

\* C15 (as stated): on every step inside a tracking window each of the
\* three counters is at least its value in the preceding state.
C15_Monotonic ==
    [][\A t \in Threads :
         WindowStep(t)
         => /\ stats'[t].allocations >= stats[t].allocations
            /\ stats'[t].deallocations >= stats[t].deallocations
            /\ stats'[t].bytes_allocated >= stats[t].bytes_allocated]_vars

\* C15 (amended): on every step inside a tracking window each counter is at
\* least its previous value, unless the step's increment (1, or the size of
\* the malloc being counted) carried it past the counter width, and then it
\* is the previous value plus the increment, wrapped.
C15_MonotonicUpToWrap ==
    [][\A t \in Threads :
         WindowStep(t)
         => /\ GrewOrWrapped(stats[t].allocations, stats'[t].allocations, 1)
            /\ GrewOrWrapped(stats[t].deallocations,
                             stats'[t].deallocations, 1)
            /\ GrewOrWrapped(stats[t].bytes_allocated,
                             stats'[t].bytes_allocated,
                             PendingSize(t))]_vars

\* an open window that has counted two mallocs and a free
C15_Witness ==
    \E t \in Threads :
        /\ tracking_enabled[t] # 0
        /\ stats[t].allocations >= 2 /\ stats[t].deallocations >= 1

\* C17: when free, called with tracking enabled and a non-null pointer, is
\* about to invoke real_free (line 45), the deallocation counter has already
\* been incremented and the real deallocator has not yet been called.
C17_CountBeforeRelease ==
    \A t \in Threads :
        (At(t, "free", "L45") /\ Top(t).entry.enabled # 0 /\ Top(t).arg # NULL)
        => /\ stats[t].deallocations =
                (Top(t).entry.stats.deallocations + 1) % UINT64_MOD
           /\ Top(t).calls = 0

\* a tracked free of a non-null pointer at the point of delegation
C17_Witness ==
    \E t \in Threads :
        /\ At(t, "free", "L45")
        /\ Top(t).entry.enabled # 0 /\ Top(t).arg # NULL
        /\ real_free # NULL_FN

\* C18: a counted malloc(size) leaves allocations = (allocations + 1) and
\* bytes_allocated = (bytes_allocated + size), both modulo the counter
\* width, with deallocations and the flag unchanged; the call returns its
\* pointer as any other.
C18_WrapsSilently ==
    \A t \in Threads :
        (Completed(t, "malloc") /\ ret[t].entry.enabled # 0
            /\ ret[t].ptr # NULL)
        => /\ stats[t].allocations =
                (ret[t].entry.stats.allocations + 1) % UINT64_MOD
           /\ stats[t].bytes_allocated =
                (ret[t].entry.stats.bytes_allocated + ret[t].arg) % UINT64_MOD
           /\ stats[t].deallocations = ret[t].entry.stats.deallocations
           /\ tracking_enabled[t] = ret[t].entry.enabled

\* a counted malloc whose size carried bytes_allocated past the width
C18_Witness ==
    \E t \in Threads :
        /\ Completed(t, "malloc") /\ ret[t].entry.enabled # 0
        /\ ret[t].ptr # NULL
        /\ ret[t].entry.stats.bytes_allocated + ret[t].arg >= UINT64_MOD
        /\ stats[t].bytes_allocated < ret[t].entry.stats.bytes_allocated

(* ------------------------------ fairness ------------------------------- *)
\* the statements of the library that thread t executes on its own once it
\* is inside a call; whether dlsym calls back into malloc/free, and whether
\* the program makes another call, is not up to the library
InCallStep(t) ==
    \/ OnceEnter(t)
    \/ OncePass(t)
    \/ InitMalloc(t)
    \/ InitFree(t)
    \/ InitReturn(t)
    \/ MallocReal(t)
    \/ MallocTrack(t)
    \/ FreeTrack(t)
    \/ FreeReal(t)

\* native threads under a fair scheduler: a thread that can execute its next
\* statement eventually does
FairSpec == Spec /\ \A t \in Threads : WF_vars(InCallStep(t))

\* the symbol lookup terminates: no thread stays inside init_hooks for ever
LookupTerminates == \A u \in Threads : []<>(~InInit(u))

\* C16: under fair scheduling, if the symbol lookup terminates, every malloc
\* and free call that a thread has entered eventually returns.
C16_EveryCallReturns ==
    LookupTerminates => \A t \in Threads : (~Idle(t)) ~> Idle(t)

====
